---- MODULE Spec2Model ----
(***************************************************************************)
(* Model of zero_thickness_repair.py: the repair of an Abaqus .inp file    *)
(* whose duplicated nodes drifted apart.                                   *)
(*                                                                         *)
(* Coordinates are integers in units of half the default tolerance         *)
(* (0.0005), so that default_tolerance = .001 is 2.  The program only      *)
(* subtracts two coordinates and compares the absolute value with the      *)
(* tolerance, which is exact on these values.                              *)
(*                                                                         *)
(* What the model leaves out: the logger and the timer decorator, the      *)
(* substitutions counter of lines 107 and 123 (it is only logged), and     *)
(* records that do not parse (a record under a node keyword line is a node *)
(* number and three or four numbers, a record under an element keyword     *)
(* line is an element number and node numbers).  Every line of the source  *)
(* file ends with a newline.  A number that line 188 writes is taken to    *)
(* read back as the same number.                                           *)
(*                                                                         *)
(* Two specifications share the clustering actions:                        *)
(*   Spec      adjust_nodes applied to every bounded node table and list   *)
(*             of element groups, one action per loop step, followed by a  *)
(*             second run on the table the first run produced;             *)
(*   FileSpec  coord_snap on every bounded source file: the policy check,  *)
(*             parse_old_inp_file, adjust_nodes, the opening of the        *)
(*             destination and write_new_inp_file.                         *)
(***************************************************************************)
EXTENDS Integers, Sequences, FiniteSets, TLC

VARIABLES
    file,                  \* the lines of the source .inp file
    element_types,         \* coord_snap's policy argument
    tolerance,             \* coord_snap's tolerance argument
    pc,                    \* the position of the program
    relevant_node_groups,  \* list of lists of node numbers
    node_coords_dict,      \* node number -> coordinate tuple, mutated in place
    as_read,               \* node_coords_dict as it was when the run started
    gi, i, j,              \* the three loop positions of adjust_nodes
    node_1_coords,         \* the local of line 111
    adjusted_nodes,        \* the node numbers appended at line 122
    adjusted_coords_dict,  \* adjust_nodes' return value
    new_file,              \* the lines written to the destination
    dest_opened,           \* the destination was opened for writing
    error,                 \* the exception that ended the run, or "none"
    run                    \* 1 for the first run, 2 for the run on its output

vars == <<file, element_types, tolerance, pc, relevant_node_groups,
          node_coords_dict, as_read, gi, i, j, node_1_coords, adjusted_nodes,
          adjusted_coords_dict, new_file, dest_opened, error, run>>

----------------------------------------------------------------------------
(* Bounds of the clustering inputs.                                        *)

NumNodes == 3      \* node numbers 1..NumNodes are in the node table
MaxRefs == 4       \* node references in all element groups together
MaxGroupLen == 3   \* node references in one element group

default_tolerance == 2   \* .001, in units of .0005

NodeIds == 1..NumNodes

(* Sample coordinates: every axis alone separates one pair by exactly the  *)
(* tolerance, and <<1,1,1>> is within the tolerance of all the others.     *)
Points == { <<0, 0, 0>>, <<1, 1, 1>>, <<2, 0, 0>>, <<0, 2, 0>>, <<0, 0, 2>> }

----------------------------------------------------------------------------
(* adjust_nodes                                                            *)

abs(x) == IF x < 0 THEN -x ELSE x

(* lines 114-119: strict, per axis, on the first three values              *)
CoincidentLE(c1, c2, tol) ==
    /\ abs(c1[1] - c2[1]) <= tol
    /\ abs(c1[2] - c2[2]) <= tol
    /\ abs(c1[3] - c2[3]) <= tol

Coincident(c1, c2, tol) ==
    /\ abs(c1[1] - c2[1]) < tol
    /\ abs(c1[2] - c2[2]) < tol
    /\ abs(c1[3] - c2[3]) < tol

(* lines 120-121: node 2 takes the current table value of node 1           *)
SubstituteSwapped(dict, node_1_number, node_2_number) ==
    [dict EXCEPT ![node_1_number] = dict[node_2_number]]

Substitute(dict, node_1_number, node_2_number) ==
    [dict EXCEPT ![node_2_number] = dict[node_1_number]]

(* the group at or after g that has a node: the for loop of line 110 runs  *)
(* no iteration for an empty group                                         *)
RECURSIVE NextGroup(_, _)
NextGroup(groups, g) ==
    IF g > Len(groups) THEN g
    ELSE IF Len(groups[g]) > 0 THEN g
    ELSE NextGroup(groups, g + 1)

(* the loop position after row p of group g is exhausted                   *)
AfterRow(groups, g, p) ==
    IF p < Len(groups[g]) THEN <<g, p + 1>>
    ELSE <<NextGroup(groups, g + 1), 1>>

Fail(e) ==
    /\ pc' = "failed"
    /\ error' = e
    /\ UNCHANGED <<file, element_types, tolerance, relevant_node_groups,
                   node_coords_dict, as_read, gi, i, j, node_1_coords,
                   adjusted_nodes, adjusted_coords_dict, new_file,
                   dest_opened, run>>

(* line 112 when node_group[i + 1:] is empty, and the end of the inner     *)
(* loop: on to the next node of the group, or to the next group            *)
RowDone ==
    LET next == AfterRow(relevant_node_groups, gi, i)
    IN  /\ pc' = "row"
        /\ gi' = next[1]
        /\ i' = next[2]
        /\ j' = 0
        /\ node_1_coords' = <<>>

(* lines 110-111: the next node of the group becomes node 1; the subscript *)
(* of line 111 raises KeyError for a node number that is not in the table, *)
(* whether or not a later node of the group follows                        *)
RowStartSkipMissing ==
    /\ pc = "row"
    /\ gi <= Len(relevant_node_groups)
    /\ LET node_1_number == relevant_node_groups[gi][i]
       IN  /\ IF /\ node_1_number \in DOMAIN node_coords_dict
                 /\ i < Len(relevant_node_groups[gi])
              THEN /\ pc' = "cmp"
                   /\ j' = i + 1
                   /\ node_1_coords' = node_coords_dict[node_1_number]
                   /\ UNCHANGED <<gi, i>>
              ELSE RowDone
           /\ UNCHANGED <<file, element_types, tolerance,
                          relevant_node_groups, node_coords_dict,
                          as_read, adjusted_nodes, adjusted_coords_dict,
                          new_file, dest_opened, error, run>>

RowStart ==
    /\ pc = "row"
    /\ gi <= Len(relevant_node_groups)
    /\ LET node_1_number == relevant_node_groups[gi][i]
       IN  IF node_1_number \notin DOMAIN node_coords_dict
           THEN Fail("KeyError")
           ELSE /\ IF i < Len(relevant_node_groups[gi])
                   THEN /\ pc' = "cmp"
                        /\ j' = i + 1
                        /\ node_1_coords' = node_coords_dict[node_1_number]
                        /\ UNCHANGED <<gi, i>>
                   ELSE RowDone
                /\ UNCHANGED <<file, element_types, tolerance,
                               relevant_node_groups, node_coords_dict,
                               as_read, adjusted_nodes, adjusted_coords_dict,
                               new_file, dest_opened, error, run>>

(* lines 112-123: one comparison of node 1 with a later node of the group  *)
Compare ==
    /\ pc = "cmp"
    /\ LET node_1_number == relevant_node_groups[gi][i]
           node_2_number == relevant_node_groups[gi][j]
       IN  IF node_2_number \notin DOMAIN node_coords_dict
           THEN Fail("KeyError")
           ELSE /\ IF Coincident(node_1_coords,
                                 node_coords_dict[node_2_number], tolerance)
                   THEN /\ node_coords_dict' =
                              Substitute(node_coords_dict, node_1_number,
                                         node_2_number)
                        /\ adjusted_nodes' = adjusted_nodes \cup {node_2_number}
                   ELSE UNCHANGED <<node_coords_dict, adjusted_nodes>>
                /\ IF j < Len(relevant_node_groups[gi])
                   THEN /\ j' = j + 1
                        /\ UNCHANGED <<pc, gi, i, node_1_coords>>
                   ELSE RowDone
                /\ UNCHANGED <<file, element_types, tolerance,
                               relevant_node_groups, as_read,
                               adjusted_coords_dict, new_file, dest_opened,
                               error, run>>

(* lines 124-129: the changed nodes with their coordinates, read from the  *)
(* table after every group was processed                                   *)
FinalReadStale(dict, nodes) == [n \in nodes |-> as_read[n]]

FinalRead(dict, nodes) == [n \in nodes |-> dict[n]]

Finish ==
    /\ pc = "row"
    /\ gi > Len(relevant_node_groups)
    /\ adjusted_coords_dict' = FinalRead(node_coords_dict, adjusted_nodes)
    /\ pc' = "adjusted"
    /\ UNCHANGED <<file, element_types, tolerance, relevant_node_groups,
                   node_coords_dict, as_read, gi, i, j, node_1_coords,
                   adjusted_nodes, new_file, dest_opened, error, run>>

(* The node table a second run reads from the first run's output: line 188 *)
(* wrote the first three values of the changed-node set's entry for a node *)
(* in it, line 190 copied the record of every other node (lines 185-191,   *)
(* read back by lines 56-58).                                              *)
ReadBack(before, adjusted) ==
    [n \in DOMAIN before |->
        IF n \in DOMAIN adjusted THEN SubSeq(adjusted[n], 1, 3) ELSE before[n]]

(* The repair run again on the output of the first run, with the same      *)
(* element groups and the same tolerance.                                  *)
Rerun ==
    /\ pc = "adjusted"
    /\ run = 1
    /\ run' = 2
    /\ node_coords_dict' = ReadBack(as_read, adjusted_coords_dict)
    /\ as_read' = node_coords_dict'
    /\ adjusted_nodes' = {}
    /\ adjusted_coords_dict' = <<>>
    /\ gi' = NextGroup(relevant_node_groups, 1)
    /\ i' = 1
    /\ j' = 0
    /\ pc' = "row"
    /\ UNCHANGED <<file, element_types, tolerance, relevant_node_groups,
                   node_1_coords, new_file, dest_opened, error>>

----------------------------------------------------------------------------
(* The inputs of adjust_nodes: every node table over the sample points and *)
(* every list of non-empty element groups within the bounds.               *)

RECURSIVE Split(_, _, _)
Split(s, cuts, from) ==
    IF from > Len(s) THEN <<>>
    ELSE LET later == {c \in cuts : c >= from}
             to == IF later = {} THEN Len(s)
                   ELSE CHOOSE c \in later : \A d \in later : c <= d
         IN  <<SubSeq(s, from, to)>> \o Split(s, cuts, to + 1)

(* adjust_nodes uses a node number only as a key of the dictionary, so a   *)
(* renaming of the nodes maps runs to runs: the lists enumerated are those *)
(* whose node numbers first occur in increasing order.  Node numbers that  *)
(* occur in no group are the highest ones.                                 *)
FirstOccurrenceOrder(s) ==
    \A k \in 1..Len(s) :
        \/ s[k] = 1
        \/ \E m \in 1..(k - 1) : s[m] = s[k] - 1

FlatRefs ==
    {s \in UNION {[1..n -> NodeIds] : n \in 0..MaxRefs} : FirstOccurrenceOrder(s)}

GroupLists ==
    {gl \in {Split(s, cuts, 1) : <<s, cuts>> \in
                 UNION {{<<s, cuts>> : cuts \in SUBSET (1..(Len(s) - 1))}
                        : s \in FlatRefs}} :
        \A k \in 1..Len(gl) : Len(gl[k]) <= MaxGroupLen}

Init ==
    /\ file = <<>>
    /\ element_types = "cohesives"
    /\ tolerance = default_tolerance
    /\ node_coords_dict \in [NodeIds -> Points]
    /\ as_read = node_coords_dict
    /\ relevant_node_groups \in GroupLists
    /\ gi = NextGroup(relevant_node_groups, 1)
    /\ i = 1
    /\ j = 0
    /\ node_1_coords = <<>>
    /\ adjusted_nodes = {}
    /\ adjusted_coords_dict = <<>>
    /\ new_file = <<>>
    /\ dest_opened = FALSE
    /\ error = "none"
    /\ run = 1
    /\ pc = "row"

Next == RowStart \/ Compare \/ Finish \/ Rerun

Spec == Init /\ [][Next]_vars

----------------------------------------------------------------------------
(* The source file.  A line is a record: kind tells what its text starts   *)
(* with; a node record carries its node number id, the values c of its     *)
(* remaining fields and canon, whether its text is exactly what line 188   *)
(* would format from id and c; an element record carries the node numbers  *)
(* that follow its own number.                                             *)

MaxLines == 6       \* lines of the source file
MaxNodeLines == 2   \* node records of the source file
MaxElemLines == 1   \* element records of the source file

(* the node numbers of the node records and of the element records; a file *)
(* need not have a node record for each                                    *)
FileNodeIds == {1, 2}

Line(kind, id, c, canon, nodes) ==
    [kind |-> kind, id |-> id, c |-> c, canon |-> canon, nodes |-> nodes]

NodeHdr == Line("*Node", 0, <<>>, TRUE, <<>>)
CohHdr  == Line("*Element, type=COH3D8", 0, <<>>, TRUE, <<>>)
ElHdr   == Line("*Element, type=C3D8", 0, <<>>, TRUE, <<>>)
Star    == Line("*Nset", 0, <<>>, TRUE, <<>>)

StarLines == {NodeHdr, CohHdr, ElHdr, Star}

(* the field values and the spelling of a node record: three fields as     *)
(* line 188 would write them, three fields spelled otherwise (blanks,      *)
(* another notation of the same number), or a fourth field                 *)
NodeFields == { <<<<0, 0, 0>>, TRUE>>, <<<<1, 1, 1>>, FALSE>>,
                <<<<0, 0, 0, 7>>, FALSE>> }

NodeLines ==
    {Line("node", id, f[1], f[2], <<>>) : id \in FileNodeIds, f \in NodeFields}

ElemLines ==
    {Line("elem", 0, <<>>, TRUE, ns) :
        ns \in UNION {[1..n -> FileNodeIds] : n \in 1..2}}

(* line.startswith('*')                                                    *)
StartsWithStar(line) == line \in StarLines

(* lines 263-266 and line 216: line.startswith(inp_el_key)                 *)
PolicyKey(et) ==
    IF et = "cohesives" THEN "*Element, type=COH3D" ELSE "*Element, type="

StartsWithKey(line, key) ==
    IF key = "*Element, type=COH3D" THEN line = CohHdr
    ELSE line \in {CohHdr, ElHdr}

(* line 150 and line 226: line.startswith('*Node\n')                       *)
IsNodeHeader(line) == line = NodeHdr

Result(err, val, pos) == [err |-> err, val |-> val, pos |-> pos]

(* lines 46-60; the cursor is left on the line that starts with '*'        *)
RECURSIVE read_node_coordinates_to_eof(_, _, _)
read_node_coordinates_to_eof(f, k, dict) ==
    IF k > Len(f) THEN Result("none", dict, k)
    ELSE IF StartsWithStar(f[k]) THEN Result("none", dict, k)
    ELSE IF f[k].kind # "node" THEN Result("ValueError", dict, k)
    ELSE read_node_coordinates_to_eof(f, k + 1,
             [n \in DOMAIN dict \cup {f[k].id} |->
                 IF n = f[k].id THEN f[k].c ELSE dict[n]])

RECURSIVE read_node_coordinates(_, _, _)
read_node_coordinates(f, k, dict) ==
    IF k > Len(f) THEN Result("end of inp file", dict, k)
    ELSE IF StartsWithStar(f[k]) THEN Result("none", dict, k)
    ELSE IF f[k].kind # "node" THEN Result("ValueError", dict, k)
    ELSE read_node_coordinates(f, k + 1,
             [n \in DOMAIN dict \cup {f[k].id} |->
                 IF n = f[k].id THEN f[k].c ELSE dict[n]])

(* lines 73-86                                                             *)
RECURSIVE identify_relevant_nodes(_, _, _)
identify_relevant_nodes(f, k, groups) ==
    IF k > Len(f) THEN Result("end of .inp file reached", groups, k)
    ELSE IF StartsWithStar(f[k]) THEN Result("none", groups, k)
    ELSE IF f[k].kind # "elem" THEN Result("ValueError", groups, k)
    ELSE identify_relevant_nodes(f, k + 1, Append(groups, f[k].nodes))

(* lines 212-219: the first pass                                           *)
RECURSIVE FirstPass(_, _, _, _)
FirstPass(f, k, key, groups) ==
    IF k > Len(f) THEN Result("none", groups, k)
    ELSE IF StartsWithKey(f[k], key)
         THEN LET r == identify_relevant_nodes(f, k + 1, <<>>)
              IN  IF r.err # "none" THEN r
                  ELSE FirstPass(f, r.pos, key, groups \o r.val)
         ELSE FirstPass(f, k + 1, key, groups)

(* lines 221-229: the second pass; every node section read replaces the    *)
(* dictionary of the one before (line 227)                                 *)
KeepFirstSection(dict, section) == IF dict = <<>> THEN section ELSE dict

LastSection(dict, section) == section

RECURSIVE SecondPass(_, _, _)
SecondPass(f, k, dict) ==
    IF k > Len(f) THEN Result("none", dict, k)
    ELSE IF IsNodeHeader(f[k])
         THEN LET r == read_node_coordinates(f, k + 1, <<>>)
              IN  IF r.err # "none" THEN r
                  ELSE SecondPass(f, r.pos, LastSection(dict, r.val))
         ELSE SecondPass(f, k + 1, dict)

(* line 188: the node number and the first three values, as formatted      *)
Format(node_number, node_coords) ==
    Line("node", node_number, SubSeq(node_coords, 1, 3), TRUE, <<>>)

(* lines 185-190: the line written for a node record                       *)
NewLineAlwaysFormatted(old_line, adjusted) ==
    Format(old_line.id, IF old_line.id \in DOMAIN adjusted
                        THEN adjusted[old_line.id] ELSE old_line.c)

NewLine(old_line, adjusted) ==
    IF old_line.id \in DOMAIN adjusted
    THEN Format(old_line.id, adjusted[old_line.id])
    ELSE old_line

(* lines 175-192                                                           *)
RECURSIVE write_new_node_section(_, _, _, _)
write_new_node_section(f, k, adjusted, out) ==
    IF k > Len(f)
    THEN Result("end of .inp file reached while parsing node section", out, k)
    ELSE IF StartsWithStar(f[k]) THEN Result("none", out, k)
    ELSE IF f[k].kind # "node" THEN Result("ValueError", out, k)
    ELSE write_new_node_section(f, k + 1, adjusted,
             Append(out, NewLine(f[k], adjusted)))

(* lines 146-158                                                           *)
RECURSIVE write_new_inp_file(_, _, _, _)
write_new_inp_file(f, k, adjusted, out) ==
    IF k > Len(f) THEN Result("none", out, k)
    ELSE IF IsNodeHeader(f[k])
         THEN LET r == write_new_node_section(f, k + 1, adjusted,
                                              Append(out, f[k]))
              IN  IF r.err # "none" THEN r
                  ELSE write_new_inp_file(f, r.pos, adjusted, r.val)
         ELSE write_new_inp_file(f, k + 1, adjusted, Append(out, f[k]))

----------------------------------------------------------------------------
(* coord_snap                                                              *)

Count(f, kind) == Cardinality({k \in 1..Len(f) : f[k].kind = kind})

(* the kind of record the section that is open at the end of f holds       *)
RecordsOf(f) ==
    LET stars == {k \in 1..Len(f) : StartsWithStar(f[k])}
        last == CHOOSE k \in stars : \A m \in stars : m <= k
    IN  IF stars = {} THEN {}
        ELSE IF f[last] = NodeHdr THEN NodeLines
        ELSE IF f[last] \in {CohHdr, ElHdr} THEN ElemLines
        ELSE {}

(* The source file as its author wrote it, line by line: keyword lines     *)
(* anywhere, and under a node or element keyword line the records of its   *)
(* section.  The element records under an element keyword line that the    *)
(* policy does not match are the lines no section scan reads.              *)
SourceLine ==
    /\ pc = "source"
    /\ Len(file) < MaxLines
    /\ \E line \in StarLines \cup RecordsOf(file) :
          /\ line.kind = "node" => Count(file, "node") < MaxNodeLines
          /\ line.kind = "elem" => Count(file, "elem") < MaxElemLines
          /\ file' = Append(file, line)
    /\ UNCHANGED <<element_types, tolerance, pc, relevant_node_groups,
                   node_coords_dict, as_read, gi, i, j, node_1_coords,
                   adjusted_nodes, adjusted_coords_dict, new_file,
                   dest_opened, error, run>>

(* lines 262-269: the policy is checked before any file is opened          *)
CoordSnap ==
    /\ pc = "source"
    /\ \E et \in {"cohesives", "all", "shells"} :
          /\ element_types' = et
          /\ IF et \in {"cohesives", "all"}
             THEN pc' = "parse" /\ error' = error
             ELSE pc' = "failed" /\ error' = "ValueError"
    /\ UNCHANGED <<file, tolerance, relevant_node_groups, node_coords_dict,
                   as_read, gi, i, j, node_1_coords, adjusted_nodes,
                   adjusted_coords_dict, new_file, dest_opened, run>>

(* lines 196-230 (called at lines 271-272)                                 *)
ParseOldInpFile ==
    /\ pc = "parse"
    /\ LET first == FirstPass(file, 1, PolicyKey(element_types), <<>>)
           second == SecondPass(file, 1, <<>>)
       IN  IF first.err # "none" THEN Fail(first.err)
           ELSE IF second.err # "none" THEN Fail(second.err)
           ELSE /\ relevant_node_groups' = first.val
                /\ node_coords_dict' = second.val
                /\ as_read' = second.val
                /\ gi' = NextGroup(first.val, 1)
                /\ pc' = "row"
                /\ UNCHANGED <<file, element_types, tolerance, i, j,
                               node_1_coords, adjusted_nodes,
                               adjusted_coords_dict, new_file, dest_opened,
                               error, run>>

(* line 277: the destination is created once adjust_nodes has returned     *)
OpenNewInpFile ==
    /\ pc = "adjusted"
    /\ dest_opened' = TRUE
    /\ pc' = "write"
    /\ UNCHANGED <<file, element_types, tolerance, relevant_node_groups,
                   node_coords_dict, as_read, gi, i, j, node_1_coords,
                   adjusted_nodes, adjusted_coords_dict, new_file, error,
                   run>>

(* lines 278-282                                                           *)
WriteNewInpFile ==
    /\ pc = "write"
    /\ LET r == write_new_inp_file(file, 1, adjusted_coords_dict, <<>>)
       IN  /\ new_file' = r.val
           /\ error' = r.err
           /\ pc' = IF r.err = "none" THEN "done" ELSE "failed"
    /\ UNCHANGED <<file, element_types, tolerance, relevant_node_groups,
                   node_coords_dict, as_read, gi, i, j, node_1_coords,
                   adjusted_nodes, adjusted_coords_dict, dest_opened, run>>

FileInit ==
    /\ file = <<>>
    /\ element_types = "unset"
    /\ tolerance = default_tolerance
    /\ node_coords_dict = <<>>
    /\ as_read = <<>>
    /\ relevant_node_groups = <<>>
    /\ gi = 1
    /\ i = 1
    /\ j = 0
    /\ node_1_coords = <<>>
    /\ adjusted_nodes = {}
    /\ adjusted_coords_dict = <<>>
    /\ new_file = <<>>
    /\ dest_opened = FALSE
    /\ error = "none"
    /\ run = 1
    /\ pc = "source"

FileNext ==
    \/ SourceLine
    \/ CoordSnap
    \/ ParseOldInpFile
    \/ RowStart
    \/ Compare
    \/ Finish
    \/ OpenNewInpFile
    \/ WriteNewInpFile

FileSpec == FileInit /\ [][FileNext]_vars

----------------------------------------------------------------------------
(* Properties of adjust_nodes, checked under Spec.                         *)

Members(group) == {group[p] : p \in 1..Len(group)}

(* adjust_nodes has processed all groups and returned                      *)
AllProcessed == pc \in {"adjusted", "write", "done"}

(* some axis on which two coordinates differ by the tolerance or more      *)
ApartOnSomeAxis(c1, c2, tol) == \E a \in 1..3 : abs(c1[a] - c2[a]) >= tol

(* every axis differs by strictly less than the tolerance                  *)
CloseOnEveryAxis(c1, c2, tol) == \A a \in 1..3 : abs(c1[a] - c2[a]) < tol

(* C1, as claimed: two nodes of one group whose as-read coordinates differ *)
(* by less than the tolerance on each axis have equal coordinates once all *)
(* groups are processed.                                                   *)
C1_CloseAsReadEndEqual ==
    AllProcessed =>
        \A g \in 1..Len(relevant_node_groups) :
            \A a, b \in Members(relevant_node_groups[g]) :
                CloseOnEveryAxis(as_read[a], as_read[b], tolerance)
                    => node_coords_dict[a] = node_coords_dict[b]

(* C1, amended: two nodes of the last group processed end with equal       *)
(* coordinates or with coordinates that are the tolerance or more apart on *)
(* some axis; and with a single group, every node of it whose as-read      *)
(* coordinate is within the tolerance of the as-read coordinate of the     *)
(* group's first node ends with the first node's coordinate.               *)
C1_LastGroupEqualOrApart ==
    (AllProcessed /\ relevant_node_groups # <<>>) =>
        LET last == relevant_node_groups[Len(relevant_node_groups)]
        IN  /\ \A a, b \in Members(last) :
                  \/ node_coords_dict[a] = node_coords_dict[b]
                  \/ ApartOnSomeAxis(node_coords_dict[a], node_coords_dict[b],
                                     tolerance)
            /\ Len(relevant_node_groups) = 1 =>
                  \A b \in Members(last) :
                      CloseOnEveryAxis(as_read[last[1]], as_read[b], tolerance)
                          => /\ node_coords_dict[b] = as_read[last[1]]
                             /\ node_coords_dict[last[1]] = as_read[last[1]]

(* a single group in which a node that was read near, but not at, the      *)
(* first node has been snapped onto it, while another pair that was read   *)
(* within the tolerance of each other stays apart                          *)
C1_Witness ==
    /\ pc = "adjusted"
    /\ run = 1
    /\ Len(relevant_node_groups) = 1
    /\ LET g == relevant_node_groups[1]
       IN  \E b, c \in Members(g) :
              /\ as_read[b] # as_read[g[1]]
              /\ CloseOnEveryAxis(as_read[g[1]], as_read[b], tolerance)
              /\ node_coords_dict[b] = as_read[g[1]]
              /\ CloseOnEveryAxis(as_read[b], as_read[c], tolerance)
              /\ node_coords_dict[b] # node_coords_dict[c]

(* C2, as claimed: the second run changes zero nodes: its changed-node set *)
(* is empty and every coordinate after it equals the coordinate before it. *)
C2_SecondRunChangesNothing ==
    (run = 2 /\ pc = "adjusted") =>
        /\ DOMAIN adjusted_coords_dict = {}
        /\ node_coords_dict = as_read

(* no node number belongs to two element groups                            *)
NoSharedNode ==
    \A g, h \in 1..Len(relevant_node_groups) :
        g # h => Members(relevant_node_groups[g])
                    \cap Members(relevant_node_groups[h]) = {}

(* C2, amended: when no node belongs to two element groups, the second run *)
(* never changes a coordinate, and every node of its changed-node set,     *)
(* which need not be empty, is mapped to the coordinate it already had.    *)
C2_SecondRunKeepsCoordinates ==
    (run = 2 /\ NoSharedNode) =>
        /\ node_coords_dict = as_read
        /\ pc = "adjusted" =>
              \A n \in DOMAIN adjusted_coords_dict :
                  adjusted_coords_dict[n] = as_read[n]

(* a second run has finished on a table in which the first run had moved a *)
(* node, and it has marked a node as changed without moving any            *)
C2_Witness ==
    /\ run = 2
    /\ pc = "adjusted"
    /\ NoSharedNode
    /\ DOMAIN adjusted_coords_dict # {}
    /\ node_coords_dict = as_read
    /\ \E g \in 1..Len(relevant_node_groups) : Len(relevant_node_groups[g]) = 3

(* C3, as claimed: A and B coincident in one group, B and C coincident in  *)
(* a later group without A: C ends with A's as-read coordinate, whatever   *)
(* the order of the nodes in their groups.                                 *)
C3_PropagatesInAnyOrder ==
    AllProcessed =>
        \A g, h \in 1..Len(relevant_node_groups) :
            g < h =>
                \A A, B \in Members(relevant_node_groups[g]) :
                    \A C \in Members(relevant_node_groups[h]) :
                        ( /\ B \in Members(relevant_node_groups[h])
                          /\ A \notin Members(relevant_node_groups[h])
                          /\ A # B /\ B # C /\ A # C
                          /\ CloseOnEveryAxis(as_read[A], as_read[B], tolerance)
                          /\ CloseOnEveryAxis(as_read[B], as_read[C], tolerance) )
                        => node_coords_dict[C] = as_read[A]

(* the case of the amended C3: two groups, A first in the first and B      *)
(* later in it, B first in the second and C later in it, A not in the      *)
(* second, B and C each read within the tolerance of A                     *)
C3_Case(A, B, C) ==
    /\ Len(relevant_node_groups) = 2
    /\ A # B /\ B # C /\ A # C
    /\ relevant_node_groups[1][1] = A
    /\ B \in Members(relevant_node_groups[1])
    /\ relevant_node_groups[2][1] = B
    /\ C \in Members(relevant_node_groups[2])
    /\ A \notin Members(relevant_node_groups[2])
    /\ CloseOnEveryAxis(as_read[A], as_read[B], tolerance)
    /\ CloseOnEveryAxis(as_read[A], as_read[C], tolerance)

(* C3, amended: with A first in the first of two groups and B later in it, *)
(* B first in the second group and C later in it, and B and C each read    *)
(* within the tolerance of A, C ends with A's as-read coordinate.          *)
C3_PropagatesFromFirstNode ==
    AllProcessed =>
        \A A, B, C \in DOMAIN node_coords_dict :
            C3_Case(A, B, C) => node_coords_dict[C] = as_read[A]

(* the case has happened with three different as-read coordinates          *)
C3_Witness ==
    /\ pc = "adjusted"
    /\ run = 1
    /\ \E A, B, C \in DOMAIN node_coords_dict :
          /\ C3_Case(A, B, C)
          /\ as_read[A] # as_read[B]
          /\ as_read[A] # as_read[C]
          /\ as_read[B] # as_read[C]
          /\ node_coords_dict[C] = as_read[A]

Moved == {n \in DOMAIN node_coords_dict : node_coords_dict[n] # as_read[n]}

(* the nodes that stand after another node in some group                   *)
LaterInAGroup ==
    {n \in DOMAIN node_coords_dict :
        \E g \in 1..Len(relevant_node_groups) :
            \E p \in 2..Len(relevant_node_groups[g]) :
                relevant_node_groups[g][p] = n}

(* C6, as claimed: the changed-node set holds exactly the nodes whose      *)
(* final coordinate differs from the as-read one, with the final           *)
(* coordinate.                                                             *)
C6_ExactlyTheMovedNodes ==
    AllProcessed =>
        /\ DOMAIN adjusted_coords_dict = Moved
        /\ \A n \in DOMAIN adjusted_coords_dict :
              adjusted_coords_dict[n] = node_coords_dict[n]

(* C6, amended: the changed-node set holds every node whose final          *)
(* coordinate differs from the as-read one, and only nodes that stand      *)
(* after another node in some group, each with its coordinate in the final *)
(* table; it may hold a node whose final coordinate is the as-read one.    *)
C6_AtLeastTheMovedNodes ==
    AllProcessed =>
        /\ Moved \subseteq DOMAIN adjusted_coords_dict
        /\ DOMAIN adjusted_coords_dict \subseteq LaterInAGroup
        /\ \A n \in DOMAIN adjusted_coords_dict :
              adjusted_coords_dict[n] = node_coords_dict[n]

(* the set holds a node that moved, with the coordinate it moved to, and a *)
(* node that did not move                                                  *)
C6_Witness ==
    /\ pc = "adjusted"
    /\ run = 1
    /\ \E n, m \in DOMAIN adjusted_coords_dict :
          /\ n \in Moved
          /\ m \notin Moved
          /\ adjusted_coords_dict[n] # as_read[n]

(* C10: at every step the coordinate stored for a node is the as-read      *)
(* coordinate of some node of the table, and a node that never stands      *)
(* after another node in a group keeps its as-read coordinate.             *)
C10_NoInventedCoordinate ==
    /\ \A n \in DOMAIN node_coords_dict :
          \E m \in DOMAIN as_read : node_coords_dict[n] = as_read[m]
    /\ \A n \in DOMAIN node_coords_dict :
          n \notin LaterInAGroup => node_coords_dict[n] = as_read[n]

(* in the middle of a group a node has moved, and the first node of that   *)
(* group, which stands after no node, was read at another coordinate than  *)
(* the one the moved node had                                              *)
C10_Witness ==
    /\ pc = "cmp"
    /\ run = 1
    /\ Moved # {}
    /\ relevant_node_groups[gi][1] \notin LaterInAGroup
    /\ \E n \in Moved : node_coords_dict[n] = as_read[relevant_node_groups[gi][1]]

----------------------------------------------------------------------------
(* Properties of coord_snap, checked under FileSpec.                       *)

(* the keyword line whose section line k of f is in, 0 when there is none  *)
HeaderOf(f, k) ==
    LET stars == {m \in 1..(k - 1) : StartsWithStar(f[m])}
    IN  IF stars = {} THEN 0 ELSE CHOOSE m \in stars : \A n \in stars : n <= m

(* line k is a record of a node section                                    *)
InNodeSection(f, k) ==
    /\ ~StartsWithStar(f[k])
    /\ HeaderOf(f, k) # 0
    /\ f[HeaderOf(f, k)].kind = "*Node"

(* the node numbers of the element records under a keyword line that the   *)
(* policy matches                                                          *)
MatchedNodes(f, et) ==
    UNION { Members(f[k].nodes) :
              k \in {m \in 1..Len(f) :
                       /\ f[m].kind = "elem"
                       /\ HeaderOf(f, m) # 0
                       /\ \/ f[HeaderOf(f, m)].kind = "*Element, type=COH3D8"
                          \/ /\ et = "all"
                             /\ f[HeaderOf(f, m)].kind = "*Element, type=C3D8"} }

(* C5: the output has the lines of the input, in the same order, and each  *)
(* is identical to the input line unless it is a node record of a node     *)
(* section whose node number belongs to a matched element group.           *)
C5_Frame ==
    pc = "done" =>
        /\ Len(new_file) = Len(file)
        /\ \A k \in 1..Len(file) :
              \/ new_file[k] = file[k]
              \/ /\ InNodeSection(file, k)
                 /\ file[k].id \in MatchedNodes(file, element_types)

(* a file was rewritten in which one node record was replaced and another, *)
(* of a node in no matched group and not spelled as line 188 would spell   *)
(* it, was copied                                                          *)
C5_Witness ==
    /\ pc = "done"
    /\ Len(new_file) = Len(file)
    /\ \E k, m \in 1..Len(file) :
          /\ new_file[k] # file[k]
          /\ InNodeSection(file, m)
          /\ file[m].id \notin MatchedNodes(file, element_types)
          /\ ~file[m].canon
          /\ new_file[m] = file[m]

(* the last keyword line of the file is a node section header: the section *)
(* ends with the file                                                      *)
NodeSectionCutOff(f) ==
    \E k \in 1..Len(f) :
        /\ IsNodeHeader(f[k])
        /\ \A m \in (k + 1)..Len(f) : ~StartsWithStar(f[m])

(* C7: when a node section is cut off by the end of the input, coord_snap  *)
(* (called with a valid policy) fails with the end-of-file error of the    *)
(* node table reader, and the destination is never opened nor written.     *)
C7_CutOffNodeSectionFails ==
    (pc \notin {"source", "parse"} /\ NodeSectionCutOff(file)) =>
        /\ pc = "failed"
        /\ element_types \in {"cohesives", "all"} => error = "end of inp file"
        /\ ~dest_opened
        /\ new_file = <<>>

(* the run failed on a file with a matched element group, a complete node  *)
(* section and a node section cut off after a node record                  *)
C7_Witness ==
    /\ pc = "failed"
    /\ error = "end of inp file"
    /\ ~dest_opened
    /\ NodeSectionCutOff(file)
    /\ file[Len(file)].kind = "node"
    /\ MatchedNodes(file, element_types) # {}
    /\ \E k, m \in 1..Len(file) : k < m /\ IsNodeHeader(file[k]) /\ IsNodeHeader(file[m])

(* some group names a node number that is not in the node table            *)
MissingReference ==
    \E g \in 1..Len(relevant_node_groups) :
        ~(Members(relevant_node_groups[g]) \subseteq DOMAIN node_coords_dict)

(* C8: when a matched element group names a node number that is absent     *)
(* from the node table, at whatever position, the run fails before the     *)
(* destination is opened and no output line is written.                    *)
C8_MissingNodeFails ==
    MissingReference =>
        /\ pc \in {"row", "cmp", "failed"}
        /\ pc = "failed" => error = "KeyError"
        /\ ~dest_opened
        /\ new_file = <<>>
        /\ ~ENABLED Finish

(* the run failed with KeyError on a table that has a node, for a group    *)
(* whose only node is absent                                               *)
C8_Witness ==
    /\ pc = "failed"
    /\ error = "KeyError"
    /\ ~dest_opened
    /\ DOMAIN node_coords_dict # {}
    /\ \E g \in 1..Len(relevant_node_groups) :
          /\ Len(relevant_node_groups[g]) = 1
          /\ relevant_node_groups[g][1] \notin DOMAIN node_coords_dict
          /\ gi = g

(* the node table of the node section that starts at keyword line k        *)
SectionTable(f, k) == read_node_coordinates(f, k + 1, <<>>).val

NodeHeaders(f) == {k \in 1..Len(f) : IsNodeHeader(f[k])}

(* parse_old_inp_file has returned                                         *)
Parsed == pc \in {"row", "cmp", "adjusted", "write", "done"}
              \/ (pc = "failed" /\ error = "KeyError")

(* C9, as claimed: the node table returned is the one of the first node    *)
(* section, and later node sections do not replace it.                     *)
C9_FirstNodeSection ==
    (Parsed /\ NodeHeaders(file) # {}) =>
        as_read = SectionTable(file,
                      CHOOSE k \in NodeHeaders(file) :
                          \A m \in NodeHeaders(file) : k <= m)

(* C9, amended: the node table reader runs on every node section of the    *)
(* file, and the node table returned is the one built from the last node   *)
(* section alone.                                                          *)
C9_LastNodeSection ==
    (Parsed /\ NodeHeaders(file) # {}) =>
        as_read = SectionTable(file,
                      CHOOSE k \in NodeHeaders(file) :
                          \A m \in NodeHeaders(file) : m <= k)

(* a file with two node sections that give different tables was parsed     *)
C9_Witness ==
    /\ Parsed
    /\ \E k, m \in NodeHeaders(file) :
          /\ k < m
          /\ SectionTable(file, k) # SectionTable(file, m)
          /\ DOMAIN SectionTable(file, k) # {}
          /\ as_read = SectionTable(file, m)

====
